---------------------------- MODULE Spec2Model ----------------------------
(***************************************************************************)
(* A model of eeschema/__init__.py: the in-memory model of a KiCad symbol  *)
(* library (SchemaLib, Component, Field, Pin, Graphic shapes) and its      *)
(* serialisation to the .lib text format.                                  *)
(*                                                                         *)
(* Text.  A text is modelled as the sequence of its "\n"-terminated lines, *)
(* and a line as the sequence of the items its format string separates by  *)
(* single spaces; every item is the string the format directive produces   *)
(* (%d through ToString, %s verbatim, adjacent directives concatenated).   *)
(*                                                                         *)
(* Objects.  Components and alias lists are Python objects with identity:  *)
(* comps and lists are heaps, indexed by object id, and attributes that    *)
(* hold a list or a component hold the id.  A dict is modelled as the      *)
(* sequence of its values in iteration order (Python 3: insertion order of *)
(* the keys, a re-assigned key keeps its place).                           *)
(***************************************************************************)
EXTENDS Integers, Sequences, FiniteSets, TLC

VARIABLES
    comps,                \* heap of Component objects, by object id 1..Len(comps)
    lists,                \* heap of alias list objects; lists[1] is the default argument of Component.__init__
    lib,                  \* SchemaLib.components: sequence of Component ids
    ret,                  \* the last call: [op, obj, text, n]: text is what to_lib returned,
                          \* n counts the consecutive to_lib calls on obj (up to MaxRepeat)
    prim,                 \* a graphic primitive the caller has constructed and not attached
    calls_add_field,      \* history: per component, the Fields passed to add_field, in call order
    calls_add_pin,        \* history: per component, the primitives passed to add_pin/add_graphic, in call order
    calls_add_component,  \* history: the component ids passed to add_component, in call order
    ops                   \* number of mutating calls made so far

vars == <<comps, lists, lib, ret, prim, calls_add_field, calls_add_pin, calls_add_component, ops>>

---------------------------------------------------------------------------
\* Bounds of the model.

MaxOps == 4
MaxComponents == 2
MaxFieldId == 5
MaxPoints == 3
MaxCoord == 1
MaxRepeat == 2

---------------------------------------------------------------------------
\* Generic helpers.

RECURSIVE Flatten(_)
Flatten(ss) == IF ss = <<>> THEN <<>> ELSE Head(ss) \o Flatten(Tail(ss))

---------------------------------------------------------------------------
\* class Field

Field_HORIZONTAL == "H"
Field_VERTICAL == "V"
Field_LEFT == "L"
Field_RIGHT == "R"
Field_CENTER == "C"
Field_BOTTOM == "B"
Field_TOP == "T"

\* Field.__init__ with every argument given.
FieldInit(id, text, x, y, dimension, visible, orientation, name, hjustify, vjustify, italic, bold) ==
    [id |-> id, text |-> text, x |-> x, y |-> y, dimension |-> dimension,
     visible |-> visible, orientation |-> orientation, hjustify |-> hjustify,
     vjustify |-> vjustify, italic |-> italic, bold |-> bold, name |-> name]

\* Field(id, text, visible = ...): the keyword defaults of Field.__init__.
Field(id, text, visible) ==
    FieldInit(id, text, 0, 0, 50, visible, Field_HORIZONTAL, "None",
              Field_LEFT, Field_CENTER, FALSE, FALSE)

\* Field.to_lib: "F%d \"%s\" %d %d %d %s %s %s %s%s%s"
FieldToLib(f) ==
    << "F" \o ToString(f.id),
       "\"" \o f.text \o "\"",
       ToString(f.x), ToString(f.y), ToString(f.dimension),
       f.orientation,
       IF f.visible THEN "V" ELSE "I",
       f.hjustify,
       f.vjustify \o (IF f.italic THEN "I" ELSE "N") \o (IF f.bold THEN "B" ELSE "N") >>

---------------------------------------------------------------------------
\* class Pin

Pin_UP == "U"
Pin_DOWN == "D"
Pin_RIGHT == "R"
Pin_LEFT == "L"

PinInit(name, number, x, y, length, orientation, size_num, size_name) ==
    [kind |-> "Pin", name |-> name, number |-> number, x |-> x, y |-> y,
     length |-> length, orientation |-> orientation,
     size_num |-> size_num, size_name |-> size_name]

\* Pin(name, number): the keyword defaults of Pin.__init__.
Pin(name, number) == PinInit(name, number, 0, 0, 100, Pin_RIGHT, 50, 50)

\* Pin.to_lib: "X %s %s %d %d %d %s %d %d 0 0 I"; number is a str here, and
\* str() of a str is that str.
PinToLib(p) ==
    << "X", p.name, p.number, ToString(p.x), ToString(p.y), ToString(p.length),
       p.orientation, ToString(p.size_num), ToString(p.size_name), "0", "0", "I" >>

---------------------------------------------------------------------------
\* class Graphic and its subclasses

Graphic_FG == "F"
Graphic_BG == "f"
Graphic_NONE == "N"

Arc(x, y, radius, start_angle, end_angle, start_x, start_y, end_x, end_y, thickness, fill) ==
    [kind |-> "Arc", thickness |-> thickness, fill |-> fill, x |-> x, y |-> y,
     radius |-> radius, start_angle |-> start_angle, end_angle |-> end_angle,
     start_x |-> start_x, start_y |-> start_y, end_x |-> end_x, end_y |-> end_y]

\* Arc.to_lib: "A %d %d %d %d %d 0 1 %d %s %d %d %d %d"
ArcToLib(g) ==
    << "A", ToString(g.x), ToString(g.y), ToString(g.radius),
       ToString(g.start_angle), ToString(g.end_angle), "0", "1",
       ToString(g.thickness), g.fill,
       ToString(g.start_x), ToString(g.start_y), ToString(g.end_x), ToString(g.end_y) >>

Circle(x, y, radius, thickness, fill) ==
    [kind |-> "Circle", thickness |-> thickness, fill |-> fill,
     x |-> x, y |-> y, radius |-> radius]

\* Circle.to_lib: "C %d %d %d 0 1 %d %s"
CircleToLib(g) ==
    << "C", ToString(g.x), ToString(g.y), ToString(g.radius), "0", "1",
       ToString(g.thickness), g.fill >>

Polyline(points, thickness, fill) ==
    [kind |-> "Polyline", thickness |-> thickness, fill |-> fill, points |-> points]

\* Variant of the loop of Polyline.to_lib: "%d %d " % (p[1], p[0])
RECURSIVE PolylinePointsSwapped(_)
PolylinePointsSwapped(points) ==
    IF points = <<>> THEN <<>>
    ELSE << ToString(Head(points)[2]), ToString(Head(points)[1]) >>
         \o PolylinePointsSwapped(Tail(points))

\* The loop of Polyline.to_lib: ret += "%d %d " % (p[0], p[1]) for p in points.
RECURSIVE PolylinePoints(_)
PolylinePoints(points) ==
    IF points = <<>> THEN <<>>
    ELSE << ToString(Head(points)[1]), ToString(Head(points)[2]) >>
         \o PolylinePoints(Tail(points))

\* Polyline.to_lib: "P %d 0 1 %d " % (len(points), thickness), the points, fill.
PolylineToLib(g) ==
    << "P", ToString(Len(g.points)), "0", "1", ToString(g.thickness) >>
    \o PolylinePoints(g.points)
    \o << g.fill >>

Rectangle(start_x, start_y, end_x, end_y, thickness, fill) ==
    [kind |-> "Rectangle", thickness |-> thickness, fill |-> fill,
     start_x |-> start_x, start_y |-> start_y, end_x |-> end_x, end_y |-> end_y]

\* Rectangle.to_lib: "S %d %d %d %d 0 1 %d %s"
RectangleToLib(g) ==
    << "S", ToString(g.start_x), ToString(g.start_y), ToString(g.end_x),
       ToString(g.end_y), "0", "1", ToString(g.thickness), g.fill >>

Text_HORIZONTAL == 0
Text_VERTICAL == 900
Text_LEFT == "L"
Text_RIGHT == "R"
Text_CENTER == "C"
Text_BOTTOM == "B"
Text_TOP == "T"

\* Text.__init__ (it does not call Graphic.__init__).  The text is held as the
\* sequence of the pieces its spaces separate.
Text(x, y, text, direction, size, italic, bold, hjustify, vjustify) ==
    [kind |-> "Text", x |-> x, y |-> y, text |-> text, direction |-> direction,
     size |-> size, bold |-> bold, italic |-> italic,
     hjustify |-> hjustify, vjustify |-> vjustify]

\* text.replace(" ", "~"): the pieces, with "~" where the spaces were.
RECURSIVE ReplaceSpaces(_)
ReplaceSpaces(words) ==
    IF words = <<>> THEN ""
    ELSE IF Len(words) = 1 THEN words[1]
    ELSE words[1] \o "~" \o ReplaceSpaces(Tail(words))

\* Text.to_lib: "T %d %d %d %d 0 0 1 %s %s %s %s %s"
TextToLib(g) ==
    << "T", ToString(g.direction), ToString(g.x), ToString(g.y), ToString(g.size),
       "0", "0", "1", ReplaceSpaces(g.text),
       IF g.italic THEN "Italic" ELSE "Normal",
       IF g.bold THEN "0" ELSE "1",
       g.hjustify, g.vjustify >>

\* g.to_lib() of Component.to_lib: dispatch on the primitive's class.
PrimToLib(g) ==
    CASE g.kind = "Pin" -> PinToLib(g)
      [] g.kind = "Arc" -> ArcToLib(g)
      [] g.kind = "Circle" -> CircleToLib(g)
      [] g.kind = "Polyline" -> PolylineToLib(g)
      [] g.kind = "Rectangle" -> RectangleToLib(g)
      [] g.kind = "Text" -> TextToLib(g)

---------------------------------------------------------------------------
\* dict, as Component.fields uses it: the values in iteration order.

DictKeys(d) == {d[i].id : i \in 1..Len(d)}

DictGet(d, k) == d[CHOOSE i \in 1..Len(d) : d[i].id = k]

\* Variant of DictSet: an id already present keeps its first value.
DictSetKeepFirst(d, k, v) ==
    IF k \in DictKeys(d) THEN d ELSE Append(d, v)

\* d[k] = v
DictSet(d, k, v) ==
    IF k \in DictKeys(d)
    THEN [i \in 1..Len(d) |-> IF d[i].id = k THEN v ELSE d[i]]
    ELSE Append(d, v)

\* d.values()
DictValues(d) == d


---------------------------------------------------------------------------
\* class Component

\* Variant of add_field: it also resets the graphic list.
add_field_clearing(self, f) ==
    [self EXCEPT !.fields = DictSet(@, f.id, f), !.graphic = <<>>]

\* Component.add_field: self.fields[f.id] = f; return self
add_field(self, f) == [self EXCEPT !.fields = DictSet(@, f.id, f)]

\* Variant of add_pin: self.graphic.insert(0, p)
add_pin_front(self, p) == [self EXCEPT !.graphic = <<p>> \o @]

\* Component.add_pin: self.graphic.append(p); return self
add_pin(self, p) == [self EXCEPT !.graphic = Append(@, p)]

\* Component.add_graphic: return self.add_pin(p)
add_graphic(self, p) == add_pin(self, p)

\* Variant of Component.__init__: Field(0, name), Field(1, reference), and a
\* visible datasheet field.
ComponentInitSwapped(name, reference, drawpinnumber, drawpinname, aliases) ==
    LET self0 == [name |-> name, reference |-> reference,
                  drawpinnumber |-> drawpinnumber, drawpinname |-> drawpinname,
                  aliases |-> aliases, fields |-> <<>>, graphic |-> <<>>]
    IN  add_field(add_field(add_field(add_field(self0,
            Field(0, name, TRUE)),
            Field(1, reference, TRUE)),
            Field(2, "", FALSE)),
            Field(3, "", TRUE))

\* Component.__init__; aliases is the id of the list object bound to the parameter.
ComponentInit(name, reference, drawpinnumber, drawpinname, aliases) ==
    LET self0 == [name |-> name, reference |-> reference,
                  drawpinnumber |-> drawpinnumber, drawpinname |-> drawpinname,
                  aliases |-> aliases, fields |-> <<>>, graphic |-> <<>>]
    IN  add_field(add_field(add_field(add_field(self0,
            Field(0, reference, TRUE)),
            Field(1, name, TRUE)),
            Field(2, "", FALSE)),
            Field(3, "", FALSE))

\* Variant of Component.to_lib: the ALIAS line is written even when there is
\* no alias, and after the fields.
ComponentToLibAliasLate(self, ls) ==
    LET ret0 == << << "DEF", self.name, self.reference, "0", "40",
                      IF self.drawpinnumber THEN "Y" ELSE "N",
                      IF self.drawpinname THEN "Y" ELSE "N",
                      "1", "F", "N" >> >>
        ret1 == ret0 \o [i \in 1..Len(DictValues(self.fields)) |->
                            FieldToLib(DictValues(self.fields)[i])]
        ret2 == Append(ret1, <<"ALIAS">> \o ls[self.aliases])
        ret3 == Append(ret2, <<"DRAW">>)
        ret4 == ret3 \o [i \in 1..Len(self.graphic) |-> PrimToLib(self.graphic[i])]
    IN  ret4 \o << <<"ENDDRAW">>, <<"ENDDEF">> >>

\* Component.to_lib, with ls the heap of list objects self.aliases points into.
ComponentToLib(self, ls) ==
    LET ret0 == << << "DEF", self.name, self.reference, "0", "40",
                      IF self.drawpinnumber THEN "Y" ELSE "N",
                      IF self.drawpinname THEN "Y" ELSE "N",
                      "1", "F", "N" >> >>
        ret1 == IF ls[self.aliases] # <<>>
                THEN Append(ret0, <<"ALIAS">> \o ls[self.aliases])
                ELSE ret0
        ret2 == ret1 \o [i \in 1..Len(DictValues(self.fields)) |->
                            FieldToLib(DictValues(self.fields)[i])]
        ret3 == Append(ret2, <<"DRAW">>)
        ret4 == ret3 \o [i \in 1..Len(self.graphic) |-> PrimToLib(self.graphic[i])]
    IN  ret4 \o << <<"ENDDRAW">>, <<"ENDDEF">> >>

---------------------------------------------------------------------------
\* class SchemaLib

\* Variant of add_component: self.components.insert(0, component)
add_component_front(components, component) == <<component>> \o components

\* SchemaLib.add_component: self.components.append(component)
add_component(components, component) == Append(components, component)

\* SchemaLib.to_lib, with cs and ls the heaps its component ids point into.
SchemaLibToLib(components, cs, ls) ==
    << <<"EESchema-LIBRARY", "Version", "2.3">>, <<"#encoding", "utf-8">> >>
    \o Flatten([i \in 1..Len(components) |-> ComponentToLib(cs[components[i]], ls)])
    \o << <<"#End", "Library">> >>

---------------------------------------------------------------------------
\* The calls the model makes.

\* The default argument aliases = [] of Component.__init__: one list object,
\* created when the def statement runs.
DefaultAliases == 1

\* Component(...) calls: given = an aliases argument is passed (a new list).
ComponentArgs ==
    { [name |-> "LED", reference |-> "U", drawpinnumber |-> TRUE,
       drawpinname |-> TRUE, given |-> FALSE, aliases |-> <<>>],
      [name |-> "R", reference |-> "RES", drawpinnumber |-> FALSE,
       drawpinname |-> TRUE, given |-> TRUE, aliases |-> <<"R0">>] }

AliasNames == {"A1"}

FieldInputs ==
    { Field(k, "a", TRUE) : k \in 4..MaxFieldId }
    \cup { Field(4, "b", TRUE),
           FieldInit(1, "b", 10, 20, 60, FALSE, Field_VERTICAL, "Value",
                     Field_RIGHT, Field_TOP, TRUE, TRUE) }

PinInputs == { Pin("A1", "1") }

ShapeInputs ==
    { Rectangle(0, 0, 10, 10, 0, Graphic_NONE),
      Polyline(<< <<0, 0>>, <<10, 0>> >>, 1, Graphic_FG) }

NoPrim == Polyline(<<>>, 0, Graphic_NONE)

Call(op, obj, text) == [op |-> op, obj |-> obj, text |-> text, n |-> 1]

\* A to_lib call: n counts how many times in a row it was made on obj.
ToLibCall(op, obj, text, last) ==
    [op |-> op, obj |-> obj, text |-> text,
     n |-> IF last.op = op /\ last.obj = obj
           THEN (IF last.n < MaxRepeat THEN last.n + 1 ELSE MaxRepeat)
           ELSE 1]

\* lib = SchemaLib(); the def statements have run, so the default argument exists.
InitLib ==
    /\ comps = <<>>
    /\ lists = << <<>> >>
    /\ lib = <<>>
    /\ ret = Call("SchemaLib", 0, <<>>)
    /\ calls_add_field = <<>>
    /\ calls_add_pin = <<>>
    /\ calls_add_component = <<>>
    /\ ops = 0

Init ==
    /\ InitLib
    /\ prim = NoPrim

\* c = Component(name, reference, drawpinnumber, drawpinname[, aliases])
NewComponent(a) ==
    /\ ops < MaxOps
    /\ Len(comps) < MaxComponents
    /\ LET l == IF a.given THEN Len(lists) + 1 ELSE DefaultAliases
       IN  /\ lists' = IF a.given THEN Append(lists, a.aliases) ELSE lists
           /\ comps' = Append(comps, ComponentInit(a.name, a.reference,
                                  a.drawpinnumber, a.drawpinname, l))
    /\ ret' = Call("Component", Len(comps) + 1, <<>>)
    /\ calls_add_field' = Append(calls_add_field,
            << Field(0, a.reference, TRUE), Field(1, a.name, TRUE),
               Field(2, "", FALSE), Field(3, "", FALSE) >>)
    /\ calls_add_pin' = Append(calls_add_pin, <<>>)
    /\ ops' = ops + 1
    /\ UNCHANGED <<lib, prim, calls_add_component>>

\* comps[c].add_field(f)
AddField(c, f) ==
    /\ ops < MaxOps
    /\ comps' = [comps EXCEPT ![c] = add_field(@, f)]
    /\ ret' = Call("add_field", c, <<>>)
    /\ calls_add_field' = [calls_add_field EXCEPT ![c] = @ \o <<f>>]
    /\ ops' = ops + 1
    /\ UNCHANGED <<lists, lib, prim, calls_add_pin, calls_add_component>>

\* comps[c].add_pin(p)
AddPin(c, p) ==
    /\ ops < MaxOps
    /\ comps' = [comps EXCEPT ![c] = add_pin(@, p)]
    /\ ret' = Call("add_pin", c, <<>>)
    /\ calls_add_pin' = [calls_add_pin EXCEPT ![c] = @ \o <<p>>]
    /\ ops' = ops + 1
    /\ UNCHANGED <<lists, lib, prim, calls_add_field, calls_add_component>>

\* comps[c].add_graphic(p)
AddGraphic(c, p) ==
    /\ ops < MaxOps
    /\ comps' = [comps EXCEPT ![c] = add_graphic(@, p)]
    /\ ret' = Call("add_graphic", c, <<>>)
    /\ calls_add_pin' = [calls_add_pin EXCEPT ![c] = @ \o <<p>>]
    /\ ops' = ops + 1
    /\ UNCHANGED <<lists, lib, prim, calls_add_field, calls_add_component>>

\* lib.add_component(comps[c])
AddComponent(c) ==
    /\ ops < MaxOps
    /\ lib' = add_component(lib, c)
    /\ ret' = Call("add_component", c, <<>>)
    /\ calls_add_component' = calls_add_component \o <<c>>
    /\ ops' = ops + 1
    /\ UNCHANGED <<comps, lists, prim, calls_add_field, calls_add_pin>>

\* comps[c].aliases.append(a): the caller extends the list the attribute holds.
AppendAlias(c, a) ==
    /\ ops < MaxOps
    /\ lists' = [lists EXCEPT ![comps[c].aliases] = Append(@, a)]
    /\ ret' = Call("aliases.append", c, <<>>)
    /\ ops' = ops + 1
    /\ UNCHANGED <<comps, lib, prim, calls_add_field, calls_add_pin, calls_add_component>>

\* Variant of lib.to_lib(): it empties self.components as it writes them.
LibToLibDraining ==
    /\ ret' = ToLibCall("SchemaLib.to_lib", 0, SchemaLibToLib(lib, comps, lists), ret)
    /\ lib' = <<>>
    /\ UNCHANGED <<comps, lists, prim, calls_add_field, calls_add_pin,
                   calls_add_component, ops>>

\* lib.to_lib()
LibToLib ==
    /\ ret' = ToLibCall("SchemaLib.to_lib", 0, SchemaLibToLib(lib, comps, lists), ret)
    /\ UNCHANGED <<comps, lists, lib, prim, calls_add_field, calls_add_pin,
                   calls_add_component, ops>>

\* comps[c].to_lib()
CompToLib(c) ==
    /\ ret' = ToLibCall("Component.to_lib", c, ComponentToLib(comps[c], lists), ret)
    /\ UNCHANGED <<comps, lists, lib, prim, calls_add_field, calls_add_pin,
                   calls_add_component, ops>>

Next ==
    \/ \E a \in ComponentArgs : NewComponent(a)
    \/ \E c \in 1..Len(comps), f \in FieldInputs : AddField(c, f)
    \/ \E c \in 1..Len(comps), p \in PinInputs : AddPin(c, p)
    \/ \E c \in 1..Len(comps), p \in ShapeInputs : AddGraphic(c, p)
    \/ \E c \in 1..Len(comps) : AddComponent(c)
    \/ \E c \in 1..Len(comps), a \in AliasNames : AppendAlias(c, a)
    \/ LibToLib
    \/ \E c \in 1..Len(comps) : CompToLib(c)

Spec == Init /\ [][Next]_vars

---------------------------------------------------------------------------
\* The serialisers of the primitives as functions of a constructed primitive:
\* the caller constructs one and calls its to_lib.

Coords == { 10 * k : k \in 0..MaxCoord }

Points == Coords \X Coords

\* Polyline(points): the keyword defaults thickness = 0, fill = Graphic.NONE.
PolylineDefault(points) == Polyline(points, 0, Graphic_NONE)

PolylineInputs ==
    { Polyline(pts, t, f) :
        pts \in UNION { [1..n -> Points] : n \in 0..MaxPoints },
        t \in {0, 2}, f \in {Graphic_NONE, Graphic_FG, Graphic_BG} }

PrimInputs ==
    PolylineInputs
    \cup PinInputs \cup ShapeInputs
    \cup { Circle(0, 10, 5, 0, Graphic_BG),
           Arc(0, 0, 10, 0, 900, 10, 0, 0, 10, 0, Graphic_NONE),
           Text(0, 0, <<"Hello", "World">>, Text_VERTICAL, 60, TRUE, FALSE,
                Text_CENTER, Text_CENTER) }

InitPrim ==
    /\ InitLib
    /\ prim \in PrimInputs

\* prim.to_lib()
PrimToLibCall ==
    /\ ret' = ToLibCall(prim.kind \o ".to_lib", 0, << PrimToLib(prim) >>, ret)
    /\ UNCHANGED <<comps, lists, lib, prim, calls_add_field, calls_add_pin,
                   calls_add_component, ops>>

NextPrim == PrimToLibCall

SpecPrim == InitPrim /\ [][NextPrim]_vars

---------------------------------------------------------------------------
\* Reading a serialised text back: what the claims below say about it.

\* What comps[c].to_lib() returns in the current state.
Emitted(c) == ComponentToLib(comps[c], lists)

Components == 1..Len(comps)

IsFieldLine(line) == \E k \in 0..MaxFieldId : line[1] = "F" \o ToString(k)

FieldLineId(line) == CHOOSE k \in 0..MaxFieldId : line[1] = "F" \o ToString(k)

FieldLines(text) == SelectSeq(text, IsFieldLine)

IsAliasLine(line) == line[1] = "ALIAS"

AliasLines(text) == SelectSeq(text, IsAliasLine)

\* The lines strictly between the DRAW line and the ENDDRAW line.
DrawSection(text) ==
    LET i == CHOOSE i \in 1..Len(text) : text[i] = <<"DRAW">>
        j == CHOOSE j \in 1..Len(text) : text[j] = <<"ENDDRAW">>
    IN  SubSeq(text, i + 1, j - 1)

\* The Field most recently passed to add_field with id k, in a call history.
LastAdded(log, k) ==
    log[CHOOSE i \in 1..Len(log) :
            /\ log[i].id = k
            /\ \A j \in (i + 1)..Len(log) : log[j].id # k]

AddedIds(log) == { log[i].id : i \in 1..Len(log) }

YN(b) == IF b THEN "Y" ELSE "N"

---------------------------------------------------------------------------
\* C1: Component.to_lib emits the field lines in strictly ascending field-id
\* order, whatever the order of the add_field calls.
C1_FieldLinesAscending ==
    \A c \in Components :
        LET fl == FieldLines(Emitted(c))
        IN  \A i, j \in 1..Len(fl) :
                i < j => FieldLineId(fl[i]) < FieldLineId(fl[j])

\* C2: add_field is last-write-wins per id: the fields mapping holds, for
\* each id ever added, exactly the Field most recently added with that id,
\* and to_lib emits exactly one field line for that id, carrying the text of
\* that latest Field.  add_field with an id already present is accepted (the
\* call is enabled whenever the model's budget of calls allows a call).
C2_LastWriteWins ==
    \A c \in Components :
        LET d == comps[c].fields
            log == calls_add_field[c]
            fl == FieldLines(Emitted(c))
        IN  /\ \A f \in FieldInputs :
                 (ops < MaxOps /\ f.id \in DictKeys(d)) => ENABLED AddField(c, f)
            /\ DictKeys(d) = AddedIds(log)
            /\ \A k \in AddedIds(log) :
                 /\ Cardinality({ i \in 1..Len(d) : d[i].id = k }) = 1
                 /\ DictGet(d, k) = LastAdded(log, k)
                 /\ Cardinality({ i \in 1..Len(fl) : FieldLineId(fl[i]) = k }) = 1
                 /\ \A i \in 1..Len(fl) :
                        FieldLineId(fl[i]) = k
                        => fl[i][2] = "\"" \o LastAdded(log, k).text \o "\""

\* C2 witness: a component to which an id was added twice with different
\* texts, and whose to_lib has been called.
C2_Witness ==
    \E c \in Components :
        /\ ret.op = "Component.to_lib" /\ ret.obj = c
        /\ \E i, j \in 1..Len(calls_add_field[c]) :
               /\ i < j
               /\ calls_add_field[c][i].id = calls_add_field[c][j].id
               /\ calls_add_field[c][i].text # calls_add_field[c][j].text

\* C3: right after Component(name, reference) the fields mapping has exactly
\* the ids 0..3: 0 = reference text, visible; 1 = name, visible; 2 and 3 =
\* empty text, invisible.  In every state ids 0..3 are all present.
C3_DefaultFields ==
    /\ ret.op = "Component" =>
         LET self == comps[ret.obj]
             d == self.fields
         IN  /\ DictKeys(d) = 0..3
             /\ Len(d) = 4
             /\ DictGet(d, 0).text = self.reference /\ DictGet(d, 0).visible
             /\ DictGet(d, 1).text = self.name /\ DictGet(d, 1).visible
             /\ DictGet(d, 2).text = "" /\ ~DictGet(d, 2).visible
             /\ DictGet(d, 3).text = "" /\ ~DictGet(d, 3).visible
    /\ \A c \in Components : (0..3) \subseteq DictKeys(comps[c].fields)

\* C3 witness: a component has just been constructed, after another one had
\* one of its ids 0..3 re-added and a primitive attached.
C3_Witness ==
    /\ ret.op = "Component" /\ ret.obj = 2
    /\ Len(calls_add_field[1]) > 4
    /\ calls_add_field[1][5].id \in 0..3
    /\ Len(comps[1].graphic) > 0

RECURSIVE C4_Blocks(_)
C4_Blocks(ids) ==
    IF ids = <<>> THEN <<>>
    ELSE C4_Blocks(SubSeq(ids, 1, Len(ids) - 1)) \o Emitted(ids[Len(ids)])

\* C4: SchemaLib.to_lib returns the two header lines, then the to_lib block
\* of each component in the order of the add_component calls (one block per
\* call), then the footer line; the empty library gives header and footer.
C4_LibraryText ==
    ret.op = "SchemaLib.to_lib" =>
        /\ ret.text = << <<"EESchema-LIBRARY", "Version", "2.3">>,
                         <<"#encoding", "utf-8">> >>
                      \o C4_Blocks(calls_add_component)
                      \o << <<"#End", "Library">> >>
        /\ calls_add_component = <<>> =>
              ret.text = << <<"EESchema-LIBRARY", "Version", "2.3">>,
                            <<"#encoding", "utf-8">>,
                            <<"#End", "Library">> >>

\* C4 witness: to_lib of a library to which two different components were
\* added, the second-constructed one first.
C4_Witness ==
    /\ ret.op = "SchemaLib.to_lib"
    /\ calls_add_component = <<2, 1>>
    /\ Emitted(1) # Emitted(2)

\* C5: the lines between DRAW and ENDDRAW are the to_lib lines of the
\* primitives passed to add_pin and add_graphic, one per call, in call order.
C5_DrawOrder ==
    \A c \in Components :
        DrawSection(Emitted(c)) =
            [i \in 1..Len(calls_add_pin[c]) |-> PrimToLib(calls_add_pin[c][i])]

\* C5 witness: to_lib of a component given a pin and then a rectangle.
C5_Witness ==
    \E c \in Components :
        /\ ret.op = "Component.to_lib" /\ ret.obj = c
        /\ Len(calls_add_pin[c]) = 2
        /\ calls_add_pin[c][1].kind = "Pin"
        /\ calls_add_pin[c][2].kind = "Rectangle"

\* C6: to_lib is deterministic and pure: a to_lib call leaves the library's
\* component sequence and every component (fields, graphic, aliases, name,
\* reference, flags) unchanged, and a to_lib call that directly follows a
\* to_lib call on the same object returns the same text.
C6_ToLibPure ==
    [][ (LibToLib \/ \E c \in Components : CompToLib(c))
        => /\ UNCHANGED <<comps, lists, lib>>
           /\ (ret'.n > 1 => ret'.text = ret.text) ]_vars

\* C6 witness: the library's to_lib was called twice in a row, on a library
\* holding a component with an added field and a primitive.
C6_Witness ==
    /\ ret.op = "SchemaLib.to_lib" /\ ret.n = 2
    /\ \E i \in 1..Len(lib) :
          /\ Len(comps[lib[i]].fields) > 4
          /\ Len(comps[lib[i]].graphic) > 0

\* C7: two distinct Components own distinct alias sequences: appending an
\* alias to one Component's aliases changes neither the alias sequence nor
\* the emitted ALIAS line of any other Component.
C7_NoSharedAliases ==
    [][ \A c \in Components, a \in AliasNames :
          AppendAlias(c, a) =>
             \A d \in Components \ {c} :
                /\ lists'[comps'[d].aliases] = lists[comps[d].aliases]
                /\ AliasLines(ComponentToLib(comps'[d], lists'))
                     = AliasLines(ComponentToLib(comps[d], lists)) ]_vars

\* C8: the block of a Component is: the DEF line (Y/N from drawpinnumber,
\* then drawpinname); an ALIAS line with the aliases in order iff there is an
\* alias; one line per entry of fields; DRAW; one line per primitive;
\* ENDDRAW; ENDDEF.  It has 4 + |fields| + |graphic| lines, plus one when
\* there is an alias.
C8_BlockLayout ==
    \A c \in Components :
        LET self == comps[c]
            text == Emitted(c)
            al == lists[self.aliases]
            a == IF al # <<>> THEN 1 ELSE 0
            nf == Cardinality(DictKeys(self.fields))
            ng == Len(self.graphic)
            n == Len(text)
        IN  /\ n = 4 + nf + ng + a
            /\ text[1] = << "DEF", self.name, self.reference, "0", "40",
                            YN(self.drawpinnumber), YN(self.drawpinname),
                            "1", "F", "N" >>
            /\ a = 1 => text[2] = <<"ALIAS">> \o al
            /\ Len(AliasLines(text)) = a
            /\ \A i \in (2 + a)..(1 + a + nf) : IsFieldLine(text[i])
            /\ text[2 + a + nf] = <<"DRAW">>
            /\ \A i \in (3 + a + nf)..(2 + a + nf + ng) :
                   text[i][1] \in {"X", "A", "C", "P", "S", "T"}
            /\ text[n - 1] = <<"ENDDRAW">>
            /\ text[n] = <<"ENDDEF">>

\* C8 witness: to_lib of a component with two aliases, an added field and
\* a primitive.
C8_Witness ==
    \E c \in Components :
        /\ ret.op = "Component.to_lib" /\ ret.obj = c
        /\ Len(lists[comps[c].aliases]) = 2
        /\ Len(comps[c].fields) = 5
        /\ Len(comps[c].graphic) = 1

\* C9: to_lib of a Polyline with n >= 1 points is the one line
\* P <n> 0 1 <thickness> <x1> <y1> ... <xn> <yn> <fill>: the count is the
\* number of pairs that follow, the pairs are in the sequence's order, the
\* fill is the last item; thickness 0 and fill N by default.
C9_PolylineLine ==
    /\ (ret.op = "Polyline.to_lib" /\ Len(prim.points) >= 1) =>
         LET n == Len(prim.points)
             line == ret.text[1]
         IN  /\ Len(ret.text) = 1
             /\ Len(line) = 6 + 2 * n
             /\ line[1] = "P"
             /\ line[2] = ToString(n)
             /\ line[2] = ToString((Len(line) - 6) \div 2)
             /\ line[3] = "0" /\ line[4] = "1"
             /\ line[5] = ToString(prim.thickness)
             /\ \A i \in 1..n :
                   /\ line[4 + 2 * i] = ToString(prim.points[i][1])
                   /\ line[5 + 2 * i] = ToString(prim.points[i][2])
             /\ line[Len(line)] = prim.fill
    /\ PolylineToLib(PolylineDefault(<< <<0, 0>>, <<10, 0>>, <<10, 10>> >>))
         = << "P", "3", "0", "1", "0", "0", "0", "10", "0", "10", "10", "N" >>

\* C9 witness: to_lib of a Polyline of three points that are not all equal
\* and whose coordinates differ.
C9_Witness ==
    /\ ret.op = "Polyline.to_lib"
    /\ Len(prim.points) = 3
    /\ prim.points[1] # prim.points[2]
    /\ prim.points[2][1] # prim.points[2][2]

\* C10: add_field(f) changes only the fields entry at f.id; add_pin and
\* add_graphic only append one element to graphic; add_component only
\* appends to the library's component sequence.
C10_AddFrame ==
    [][ /\ \A c \in Components, f \in FieldInputs :
             AddField(c, f) =>
               LET d == comps[c].fields
                   e == comps'[c].fields
               IN  /\ DictKeys(e) = DictKeys(d) \cup {f.id}
                   /\ \A k \in DictKeys(d) \ {f.id} : DictGet(e, k) = DictGet(d, k)
                   /\ comps'[c].graphic = comps[c].graphic
                   /\ comps'[c].aliases = comps[c].aliases
                   /\ comps'[c].name = comps[c].name
                   /\ comps'[c].reference = comps[c].reference
                   /\ comps'[c].drawpinnumber = comps[c].drawpinnumber
                   /\ comps'[c].drawpinname = comps[c].drawpinname
                   /\ \A o \in Components \ {c} : comps'[o] = comps[o]
                   /\ UNCHANGED <<lists, lib>>
        /\ \A c \in Components, p \in PinInputs \cup ShapeInputs :
             (AddPin(c, p) \/ AddGraphic(c, p)) =>
               /\ comps'[c].graphic = Append(comps[c].graphic, p)
               /\ comps'[c].fields = comps[c].fields
               /\ comps' = [comps EXCEPT ![c].graphic = comps'[c].graphic]
               /\ UNCHANGED <<lists, lib>>
        /\ \A c \in Components :
             AddComponent(c) =>
               /\ Len(lib') = Len(lib) + 1
               /\ SubSeq(lib', 1, Len(lib)) = lib
               /\ UNCHANGED <<comps, lists>> ]_vars

\* C10 witness: add_field has just been called on a component that already
\* had an added field and a primitive.
C10_Witness ==
    \E c \in Components :
        /\ ret.op = "add_field" /\ ret.obj = c
        /\ Len(comps[c].fields) > 5
        /\ Len(comps[c].graphic) > 0

=============================================================================
